---- MODULE Spec2Model ----
(***************************************************************************)
(* Model of autobahn/asyncio/wamp.py: ApplicationRunner.run() and          *)
(* connect_to() with its helpers _create_wamp_factory, _connect_stream,    *)
(* _create_unix_stream_transport and the done-callback return_proto.       *)
(*                                                                         *)
(* Two state machines share the module.  Spec runs ApplicationRunner.run() *)
(* once; SpecConnect runs connect_to() once on a transport configuration   *)
(* drawn from a small set.                                                 *)
(***************************************************************************)
EXTENDS Integers, Sequences, FiniteSets, TLC

(* ------------------------------ bounds ------------------------------- *)

\* session objects that exist in the process (the session_factory picks one)
NumObjs == 2
\* distinct realm / extra values a runner can be configured with
NumRealms == 2
\* distinct error objects an awaited future can fail with
NumErrors == 2

\* distinct filesystem paths / host-port addresses in a configuration
NumPaths == 2
NumAddrs == 1
\* transport and protocol objects the loop can hand out
NumTransports == 2
NumProtocols == 2
\* how often connection-loss is triggered on a transport
MaxTriggers == 2

Objs == 1..NumObjs
Paths == 1..NumPaths
Addrs == 1..NumAddrs
Transports == 1..NumTransports
Protocols == 1..NumProtocols
Realms == 1..NumRealms
Extras == 1..NumRealms
Errors == 1..NumErrors

(* --------------------------- runner state ---------------------------- *)

VARIABLES
    pc,               \* position of run(): idle, loop_configured,
                      \* session_created, opening, shutdown, leaving,
                      \* closing, returned, raised
    realm, extra,     \* self.realm, self.extra
    signals_supported,\* does loop.add_signal_handler work on this platform
    sigterm_handler,  \* "none" | "loop.stop"
    factory_calls,    \* number of calls of session_factory
    factory_arg,      \* the ComponentConfig it was called with (<<>> = none)
    session,          \* local `session` of run(): 0 = unbound
    connection,       \* self.connection: the session it was built with, 0 = none
    opened,           \* session of the Connection whose open() is awaited
    open_error,       \* error object the future of open() failed with, 0 = none
    session_id,       \* _session_id of every session object, 0 = None
    protocol_has_session, \* hasattr(protocol, '_session'), where `protocol` is
                      \* the module object the global name is bound to
    protocol_session, \* protocol._session when present: 0 = None, else an object
    loop_state,       \* "open" | "running" | "closed"
    interrupted,      \* KeyboardInterrupt was raised inside the wait on open()
    sigterm,          \* SIGTERM was handled inside the wait on open()
    leave_calls,      \* sequence of objects leave() was called on
    left,             \* objects whose leave() ran to completion
    exc,              \* exception run() raised to its caller (NoExc = none)
    events            \* log of run()'s events, in order

(* -------------------------- connect_to state ------------------------- *)

VARIABLES
    cfg,              \* transport_config passed to connect_to
    ct_pc,            \* "idle" | "start" | "returned" | "raised"
    ct_exc,           \* exception connect_to raised synchronously
    url_parsed,       \* number of parseWsUrl calls made by _connect_stream
    requests,         \* connection attempts handed to the loop, in order
    f0,               \* what _connect_stream returned: its kind, the call of
                      \* the loop's connect primitive behind it (req), its state
    f1,               \* the future connect_to returns
    f1_sets,          \* number of set_result/set_exception calls that succeeded on f1
    callback_ran,     \* return_proto has run
    hook,             \* transport.connectionLost of every transport: the
                      \* protocol whose connection_lost it is bound to, 0 = unset
    lost_calls,       \* calls of protocol.connection_lost per protocol
    triggers          \* calls of transport.connectionLost() made so far

runner_vars == <<pc, realm, extra, signals_supported, sigterm_handler,
                 factory_calls, factory_arg, session, connection, opened,
                 open_error, session_id, protocol_has_session,
                 protocol_session, loop_state, interrupted,
                 sigterm, leave_calls, left, exc, events>>

connect_vars == <<cfg, ct_pc, ct_exc, url_parsed, requests, f0, f1, f1_sets,
                  callback_ran, hook, lost_calls, triggers>>

vars == <<runner_vars, connect_vars>>

(* ----------------------------- exceptions ---------------------------- *)

NoExc == [kind |-> "none", err |-> 0]
Exc(k) == [kind |-> k, err |-> 0]
ExcOf(k, e) == [kind |-> k, err |-> e]

(* ------------------------------ run() -------------------------------- *)

\* ComponentConfig(realm=self.realm, extra=self.extra)
ComponentConfigWrongRealm(r, e) == [realm |-> (r % NumRealms) + 1, extra |-> e]
ComponentConfig(r, e) == [realm |-> r, extra |-> e]

\* Connection(session, self._transports, loop): the session the Connection holds
Connection(s) == s

\* loop.add_signal_handler(signal.SIGTERM, loop.stop) inside try/except
\* NotImplementedError: the handler that ends up installed
add_signal_handler(supported) == IF supported THEN "loop.stop" ELSE "none"

\* lines 211-213: `except NotImplementedError: pass` around add_signal_handler
except_NotImplementedError_missing == FALSE
except_NotImplementedError == TRUE

\* `except KeyboardInterrupt` around loop.run_until_complete(open())
CaughtNothing(e) == FALSE
CaughtAll(e) == TRUE
Caught(e) == e.kind = "KeyboardInterrupt"

\* loop.run_until_complete(fut) when the loop is stopped while fut is pending:
\* asyncio raises RuntimeError('Event loop stopped before Future completed.')
run_until_complete_stopped == Exc("RuntimeError")

\* `hasattr(protocol, '_session') and protocol._session is not None` and then
\* `protocol._session._session_id`.  In run() the name `protocol` is the global
\* bound by `from autobahn.wamp import protocol`: a module object, not the
\* session created by session_factory and not a transport protocol instance.
HasSessionIgnoringId == protocol_has_session /\ protocol_session # 0
HasActiveSession ==
    /\ protocol_has_session
    /\ protocol_session # 0
    /\ session_id[protocol_session] # 0

Init ==
    /\ pc = "idle"
    /\ realm \in Realms
    /\ extra \in Extras
    /\ signals_supported \in BOOLEAN
    /\ sigterm_handler = "none"
    /\ factory_calls = 0
    /\ factory_arg = <<>>
    /\ session = 0
    /\ connection = 0
    /\ opened = 0
    /\ open_error = 0
    /\ session_id = [o \in Objs |-> 0]
    /\ protocol_has_session \in BOOLEAN
    /\ protocol_session \in 0..NumObjs
    /\ (~protocol_has_session => protocol_session = 0)
    /\ loop_state = "open"
    /\ interrupted = FALSE
    /\ sigterm = FALSE
    /\ leave_calls = <<>>
    /\ left = {}
    /\ exc = NoExc
    /\ events = <<>>
    \* connect_to is not called in this specification
    /\ cfg = [type |-> "websocket", url |-> "ws", path |-> 0,
              ep_type |-> "tcp", ep_path |-> 0, ep_host |-> 1,
              ep_port |-> 1, ep_version |-> 0, ep_tls |-> "absent"]
    /\ ct_pc = "idle"
    /\ ct_exc = [kind |-> "none", arg |-> "none"]
    /\ url_parsed = 0
    /\ requests = <<>>
    /\ f0 = [kind |-> "none", state |-> "none", transport |-> 0,
             protocol |-> 0, err |-> 0, is_pair |-> TRUE,
             patchable |-> TRUE,
             req |-> [kind |-> "none", path |-> 0, host |-> 0, port |-> 0,
                      ssl |-> "none"]]
    /\ f1 = [state |-> "none", result |-> 0, exc |-> NoExc]
    /\ f1_sets = 0
    /\ callback_ran = FALSE
    /\ hook = [t \in Transports |-> 0]
    /\ lost_calls = [p \in Protocols |-> 0]
    /\ triggers = 0

\* lines 203-213: pick the loop, txaio setup, install the SIGTERM handler
ConfigureLoop ==
    /\ UNCHANGED connect_vars
    /\ pc = "idle"
    /\ sigterm_handler' = add_signal_handler(signals_supported)
    /\ IF signals_supported \/ except_NotImplementedError
         THEN pc' = "loop_configured" /\ exc' = exc
         ELSE pc' = "raised" /\ exc' = Exc("NotImplementedError")
    /\ UNCHANGED <<open_error, realm, extra, signals_supported, factory_calls,
                   factory_arg, session, connection, opened, session_id,
                   protocol_has_session, protocol_session, loop_state,
                   interrupted, sigterm, leave_calls, left, events>>

\* lines 215-220: session = session_factory(ComponentConfig(...)) returns an
\* object; self.connection = Connection(session, self._transports, loop)
CreateSession ==
    /\ UNCHANGED connect_vars
    /\ pc = "loop_configured"
    /\ \E o \in Objs :
        /\ session' = o
        /\ connection' = Connection(o)
    /\ factory_calls' = factory_calls + 1
    /\ factory_arg' = ComponentConfig(realm, extra)
    /\ events' = Append(events, "session_factory")
    /\ pc' = "session_created"
    /\ UNCHANGED <<open_error, realm, extra, signals_supported, sigterm_handler, opened,
                   session_id, protocol_has_session, protocol_session,
                   loop_state, interrupted, sigterm, leave_calls, left, exc>>

\* line 215: session_factory raises; nothing in run() catches it
FactoryRaises ==
    /\ UNCHANGED connect_vars
    /\ pc = "loop_configured"
    /\ factory_calls' = factory_calls + 1
    /\ factory_arg' = ComponentConfig(realm, extra)
    /\ events' = Append(events, "session_factory")
    /\ \E e \in Errors : exc' = ExcOf("FactoryError", e)
    /\ pc' = "raised"
    /\ UNCHANGED <<open_error, realm, extra, signals_supported, sigterm_handler, session,
                   connection, opened, session_id, protocol_has_session,
                   protocol_session, loop_state, interrupted, sigterm,
                   leave_calls, left>>

\* line 224: loop.run_until_complete(self.connection.open()) starts the loop
OpenStart ==
    /\ UNCHANGED connect_vars
    /\ pc = "session_created"
    /\ opened' = connection
    /\ loop_state' = "running"
    /\ events' = Append(events, "open_start")
    /\ pc' = "opening"
    /\ UNCHANGED <<open_error, realm, extra, signals_supported, sigterm_handler,
                   factory_calls, factory_arg, session, connection, session_id,
                   protocol_has_session, protocol_session, interrupted,
                   sigterm, leave_calls, left, exc>>

\* while the loop runs, a session object joins a realm: it gets a session id
SessionJoin(o) ==
    /\ UNCHANGED connect_vars
    /\ pc = "opening"
    /\ session_id[o] = 0
    /\ session_id' = [session_id EXCEPT ![o] = 1]
    /\ UNCHANGED <<pc, open_error, realm, extra, signals_supported, sigterm_handler,
                   factory_calls, factory_arg, session, connection, opened,
                   protocol_has_session, protocol_session, loop_state,
                   interrupted, sigterm, leave_calls, left, exc, events>>

\* while the loop runs, a joined session is closed: its session id becomes None
SessionDrop(o) ==
    /\ UNCHANGED connect_vars
    /\ pc = "opening"
    /\ session_id[o] # 0
    /\ session_id' = [session_id EXCEPT ![o] = 0]
    /\ UNCHANGED <<pc, open_error, realm, extra, signals_supported, sigterm_handler,
                   factory_calls, factory_arg, session, connection, opened,
                   protocol_has_session, protocol_session, loop_state,
                   interrupted, sigterm, leave_calls, left, exc, events>>

\* lines 223-228: the wait on open() ended by raising e
AfterWaitRaised(e) ==
    /\ loop_state' = "open"
    /\ events' = Append(events, "open_end")
    /\ IF Caught(e)
         THEN pc' = "shutdown" /\ exc' = exc
         ELSE pc' = "raised" /\ exc' = e

\* line 224: the future of open() resolves, run_until_complete returns
OpenResolved ==
    /\ UNCHANGED connect_vars
    /\ pc = "opening"
    /\ loop_state' = "open"
    /\ events' = Append(events, "open_end")
    /\ pc' = "shutdown"
    /\ UNCHANGED <<open_error, realm, extra, signals_supported, sigterm_handler,
                   factory_calls, factory_arg, session, connection, opened,
                   session_id, protocol_has_session, protocol_session,
                   interrupted, sigterm, leave_calls, left, exc>>

\* line 224: the future of open() fails with e, run_until_complete raises e
OpenFailed ==
    /\ UNCHANGED connect_vars
    /\ pc = "opening"
    /\ \E e \in Errors :
        /\ open_error' = e
        /\ AfterWaitRaised(ExcOf("OpenError", e))
    /\ UNCHANGED <<realm, extra, signals_supported, sigterm_handler,
                   factory_calls, factory_arg, session, connection, opened,
                   session_id, protocol_has_session, protocol_session,
                   interrupted, sigterm, leave_calls, left>>

\* line 224: the user hits ctrl-c while the loop waits on open()
UserInterrupt ==
    /\ UNCHANGED connect_vars
    /\ pc = "opening"
    /\ interrupted' = TRUE
    /\ AfterWaitRaised(Exc("KeyboardInterrupt"))
    /\ UNCHANGED <<open_error, realm, extra, signals_supported, sigterm_handler,
                   factory_calls, factory_arg, session, connection, opened,
                   session_id, protocol_has_session, protocol_session,
                   sigterm, leave_calls, left>>

\* line 210 + 224: SIGTERM arrives while the loop waits on open(); the
\* installed handler loop.stop runs, the loop stops with open() still pending
SigTerm ==
    /\ UNCHANGED connect_vars
    /\ pc = "opening"
    /\ sigterm_handler = "loop.stop"
    /\ sigterm' = TRUE
    /\ AfterWaitRaised(run_until_complete_stopped)
    /\ UNCHANGED <<open_error, realm, extra, signals_supported, sigterm_handler,
                   factory_calls, factory_arg, session, connection, opened,
                   session_id, protocol_has_session, protocol_session,
                   interrupted, leave_calls, left>>

\* lines 232-234: decide whether to run leave(), and start it
Shutdown ==
    /\ UNCHANGED connect_vars
    /\ pc = "shutdown"
    /\ IF HasActiveSession
         THEN /\ leave_calls' = Append(leave_calls, protocol_session)
              /\ loop_state' = "running"
              /\ events' = Append(events, "leave_start")
              /\ pc' = "leaving"
         ELSE /\ pc' = "closing"
              /\ UNCHANGED <<leave_calls, loop_state, events>>
    /\ UNCHANGED <<open_error, realm, extra, signals_supported, sigterm_handler,
                   factory_calls, factory_arg, session, connection, opened,
                   session_id, protocol_has_session, protocol_session,
                   interrupted, sigterm, left, exc>>

\* line 234: the future of leave() resolves
LeaveCompletedRetry ==
    /\ UNCHANGED connect_vars
    /\ pc = "leaving"
    /\ left' = left \cup {leave_calls[Len(leave_calls)]}
    /\ loop_state' = "open"
    /\ events' = Append(events, "leave_end")
    /\ pc' = "shutdown"
    /\ UNCHANGED <<open_error, realm, extra, signals_supported, sigterm_handler,
                   factory_calls, factory_arg, session, connection, opened,
                   session_id, protocol_has_session, protocol_session,
                   interrupted, sigterm, leave_calls, exc>>
LeaveCompleted ==
    /\ UNCHANGED connect_vars
    /\ pc = "leaving"
    /\ left' = left \cup {leave_calls[Len(leave_calls)]}
    /\ loop_state' = "open"
    /\ events' = Append(events, "leave_end")
    /\ pc' = "closing"
    /\ UNCHANGED <<open_error, realm, extra, signals_supported, sigterm_handler,
                   factory_calls, factory_arg, session, connection, opened,
                   session_id, protocol_has_session, protocol_session,
                   interrupted, sigterm, leave_calls, exc>>

\* line 234: the future of leave() fails; nothing in run() catches it
LeaveRaised ==
    /\ UNCHANGED connect_vars
    /\ pc = "leaving"
    /\ \E e \in Errors : exc' = ExcOf("LeaveError", e)
    /\ loop_state' = "open"
    /\ pc' = "raised"
    /\ UNCHANGED <<open_error, realm, extra, signals_supported, sigterm_handler,
                   factory_calls, factory_arg, session, connection, opened,
                   session_id, protocol_has_session, protocol_session,
                   interrupted, sigterm, leave_calls, left, events>>

\* line 235: loop.close(), then run() returns
CloseLoop ==
    /\ UNCHANGED connect_vars
    /\ pc = "closing"
    /\ loop_state' = "closed"
    /\ events' = Append(events, "loop_close")
    /\ pc' = "returned"
    /\ UNCHANGED <<open_error, realm, extra, signals_supported, sigterm_handler,
                   factory_calls, factory_arg, session, connection, opened,
                   session_id, protocol_has_session, protocol_session,
                   interrupted, sigterm, leave_calls, left, exc>>

Next ==
    \/ ConfigureLoop
    \/ CreateSession
    \/ FactoryRaises
    \/ OpenStart
    \/ \E o \in Objs : SessionJoin(o)
    \/ \E o \in Objs : SessionDrop(o)
    \/ OpenResolved
    \/ OpenFailed
    \/ UserInterrupt
    \/ SigTerm
    \/ Shutdown
    \/ LeaveCompleted
    \/ LeaveRaised
    \/ CloseLoop

(* ---------------------------- connect_to ----------------------------- *)

\* result of a call: a value or a raised exception
Return(v) == [ok |-> TRUE, val |-> v, exc |-> [kind |-> "none", arg |-> "none"]]
Raise(k, a) == [ok |-> FALSE, val |-> <<>>, exc |-> [kind |-> k, arg |-> a]]

TransportConfigs ==
    [type : {"websocket", "rawsocket"},
     url : {"ws", "wss", "bad"},
     path : {0} \cup Paths,          \* key 'path' of the configuration itself
     ep_type : {"unix", "tcp", "udp"},
     ep_path : {0} \cup Paths,       \* endpoint['path'], 0 = key absent
     ep_host : Addrs,
     ep_port : Addrs,
     ep_version : {0, 4, 6},         \* endpoint['version'], 0 = key absent
     ep_tls : {"absent", "true", "false"}]

\* parseWsUrl(url): is_secure of a well-formed URL, an exception otherwise
parseWsUrl(url) ==
    IF url = "bad" THEN Raise("UrlError", url)
    ELSE Return(IF url = "wss" THEN "true" ELSE "false")

\* ep.get('version', 4)
ep_get_version_always4(c) == 4
ep_get_version(c) == IF c.ep_version = 0 THEN 4 ELSE c.ep_version

\* ssl = is_secure; ssl = ep.get('tls', ssl)
ssl_setting_from_url(c, is_secure) == is_secure
ssl_setting(c, is_secure) == IF c.ep_tls = "absent" THEN is_secure ELSE c.ep_tls

NoRequest == [kind |-> "none", path |-> 0, host |-> 0, port |-> 0, ssl |-> "none"]
NoFuture == [kind |-> "none", req |-> NoRequest]

\* _create_unix_stream_transport(loop, cfg, factory), called with the whole
\* transport configuration: asyncio.async(loop.create_unix_connection(factory,
\* cfg['path'])) is a Task, already scheduled on the loop
_create_unix_stream_transport(c) ==
    IF c.path = 0 THEN Raise("KeyError", "path")
    ELSE Return([kind |-> "task",
                 req |-> [kind |-> "unix", path |-> c.path, host |-> 0,
                          port |-> 0, ssl |-> "none"]])

\* loop.create_connection(factory, host, port, ssl=ssl): calling a coroutine
\* function gives a coroutine object; nothing runs until it is scheduled
create_connection(host, port, ssl) ==
    [kind |-> "coroutine",
     req |-> [kind |-> "tcp", path |-> 0, host |-> host, port |-> port,
              ssl |-> ssl]]

\* _connect_stream(loop, cfg, wamp_transport_factory)
_connect_stream_any_type_is_tcp(c) ==
    LET parsed == parseWsUrl(c.url) IN
    IF ~parsed.ok THEN parsed
    ELSE IF c.ep_type = "unix" THEN _create_unix_stream_transport(c)
    ELSE IF ep_get_version(c) = 4
          THEN Return(create_connection(c.ep_host, c.ep_port,
                                        ssl_setting(c, parsed.val)))
          ELSE Raise("RuntimeError: FIXME: IPv6 asyncio", "none")
_connect_stream(c) ==
    LET parsed == parseWsUrl(c.url) IN
    IF ~parsed.ok THEN parsed
    ELSE IF c.ep_type = "unix" THEN _create_unix_stream_transport(c)
    ELSE IF c.ep_type = "tcp" THEN
        IF ep_get_version(c) = 4
          THEN Return(create_connection(c.ep_host, c.ep_port,
                                        ssl_setting(c, parsed.val)))
          ELSE Raise("RuntimeError: FIXME: IPv6 asyncio", "none")
    ELSE Raise("RuntimeError: Unknown type", c.type)

\* _create_wamp_factory(reactor, cfg, session_factory)
_create_wamp_factory_any(c) == Return([url |-> c.url])
_create_wamp_factory(c) ==
    IF c.type = "rawsocket" THEN Raise("RuntimeError: No rawsocket/asyncio impl", "none")
    ELSE Return([url |-> c.url])

\* f0.add_done_callback(return_proto): only futures have the method
has_add_done_callback(f) == f.kind = "task"

\* connect_to(loop, transport_config, session), lines 156-178, as one call
connect_to(c) ==
    LET tf == _create_wamp_factory(c) IN
    IF ~tf.ok THEN [tf EXCEPT !.val = NoFuture]
    ELSE LET cs == _connect_stream(c) IN
         IF ~cs.ok THEN [cs EXCEPT !.val = NoFuture]
         ELSE IF ~has_add_done_callback(cs.val)
                THEN [Raise("AttributeError", "add_done_callback")
                        EXCEPT !.val = cs.val]
                ELSE cs

\* did the call get as far as parseWsUrl (line 96)
reaches_parseWsUrl(c) == _create_wamp_factory(c).ok

PendingF0 == [kind |-> "none", state |-> "none", transport |-> 0, protocol |-> 0,
              err |-> 0, is_pair |-> TRUE, patchable |-> TRUE,
              req |-> NoRequest]
PendingF1 == [state |-> "none", result |-> 0, exc |-> NoExc]

InitConnect ==
    /\ cfg \in TransportConfigs
    /\ ct_pc = "start"
    /\ ct_exc = Return(<<>>).exc
    /\ url_parsed = 0
    /\ requests = <<>>
    /\ f0 = PendingF0
    /\ f1 = PendingF1
    /\ f1_sets = 0
    /\ callback_ran = FALSE
    /\ hook = [t \in Transports |-> 0]
    /\ lost_calls = [p \in Protocols |-> 0]
    /\ triggers = 0
    \* run() is not called in this specification
    /\ pc = "idle"
    /\ realm = 1
    /\ extra = 1
    /\ signals_supported = TRUE
    /\ sigterm_handler = "none"
    /\ factory_calls = 0
    /\ factory_arg = <<>>
    /\ session = 0
    /\ connection = 0
    /\ opened = 0
    /\ open_error = 0
    /\ session_id = [o \in Objs |-> 0]
    /\ protocol_has_session = FALSE
    /\ protocol_session = 0
    /\ loop_state = "open"
    /\ interrupted = FALSE
    /\ sigterm = FALSE
    /\ leave_calls = <<>>
    /\ left = {}
    /\ exc = NoExc
    /\ events = <<>>

\* the synchronous part of connect_to: lines 156-178
ConnectTo ==
    /\ UNCHANGED runner_vars
    /\ ct_pc = "start"
    /\ LET r == connect_to(cfg) IN
        /\ url_parsed' = IF reaches_parseWsUrl(cfg) THEN url_parsed + 1 ELSE url_parsed
        /\ requests' = IF r.val.kind = "task" THEN Append(requests, r.val.req)
                       ELSE requests
        /\ IF r.ok
             THEN /\ ct_pc' = "returned"
                  /\ f0' = [PendingF0 EXCEPT !.kind = r.val.kind, !.req = r.val.req,
                                           !.state = "pending"]
                  /\ f1' = [PendingF1 EXCEPT !.state = "pending"]
                  /\ ct_exc' = ct_exc
             ELSE /\ ct_pc' = "raised"
                  /\ ct_exc' = r.exc
                  /\ f0' = [PendingF0 EXCEPT !.kind = r.val.kind, !.req = r.val.req]
                  /\ f1' = f1
    /\ UNCHANGED <<cfg, f1_sets, callback_ran, hook, lost_calls, triggers>>

\* the connection attempt succeeds: the Task's result is what
\* create_unix_connection returns
ConnectorResolved ==
    /\ UNCHANGED runner_vars
    /\ ct_pc = "returned"
    /\ f0.state = "pending"
    /\ \E t \in Transports, p \in Protocols, pair \in BOOLEAN, patch \in BOOLEAN :
        f0' = [f0 EXCEPT !.state = "resolved", !.transport = t, !.protocol = p,
                         !.is_pair = pair, !.patchable = patch]
    /\ UNCHANGED <<cfg, ct_pc, ct_exc, url_parsed, requests, f1, f1_sets,
                   callback_ran, hook, lost_calls, triggers>>

\* the connection attempt fails with error e
ConnectorFailed ==
    /\ UNCHANGED runner_vars
    /\ ct_pc = "returned"
    /\ f0.state = "pending"
    /\ \E e \in Errors : f0' = [f0 EXCEPT !.state = "failed", !.err = e]
    /\ UNCHANGED <<cfg, ct_pc, ct_exc, url_parsed, requests, f1, f1_sets,
                   callback_ran, hook, lost_calls, triggers>>

\* the Task is cancelled
ConnectorCancelled ==
    /\ UNCHANGED runner_vars
    /\ ct_pc = "returned"
    /\ f0.state = "pending"
    /\ f0' = [f0 EXCEPT !.state = "cancelled"]
    /\ UNCHANGED <<cfg, ct_pc, ct_exc, url_parsed, requests, f1, f1_sets,
                   callback_ran, hook, lost_calls, triggers>>

\* line 172: transport, protocol = result.result()
result_result(f) ==
    IF f.state = "failed" THEN [ok |-> FALSE, exc |-> ExcOf("ConnectError", f.err)]
    ELSE IF f.state = "cancelled" THEN [ok |-> FALSE, exc |-> Exc("CancelledError")]
    ELSE IF ~f.is_pair THEN [ok |-> FALSE, exc |-> Exc("ValueError")]
    ELSE [ok |-> TRUE, exc |-> NoExc]

\* line 173: transport.connectionLost = protocol.connection_lost
patch_unchanged(t, p) == hook
patch(t, p) == [hook EXCEPT ![t] = p]

\* line 175: `except Exception`.  Every exception the try block can raise is
\* an Exception, CancelledError included (asyncio.async only exists where
\* CancelledError derives from Exception)
except_Exception_not_cancelled(e) == e.kind # "CancelledError"
except_Exception(e) == TRUE

\* line 174: f1.set_result(protocol), the value f1 carries
set_result(p) == p

\* lines 170-176: the done-callback of f0, called by the loop once f0 is done
return_proto ==
    /\ UNCHANGED runner_vars
    /\ ct_pc = "returned"
    /\ f0.state \in {"resolved", "failed", "cancelled"}
    /\ ~callback_ran
    /\ callback_ran' = TRUE
    /\ LET r == result_result(f0)
           e == IF ~r.ok THEN r.exc
                ELSE IF ~f0.patchable THEN Exc("AttributeError")
                ELSE NoExc
       IN IF e = NoExc
            THEN /\ hook' = patch(f0.transport, f0.protocol)
                 /\ f1' = [f1 EXCEPT !.state = "resolved",
                                     !.result = set_result(f0.protocol)]
                 /\ f1_sets' = f1_sets + 1
            ELSE IF except_Exception(e)
                   THEN /\ f1' = [f1 EXCEPT !.state = "failed", !.exc = e]
                        /\ f1_sets' = f1_sets + 1
                        /\ hook' = hook
                   ELSE UNCHANGED <<f1, f1_sets, hook>>
    /\ UNCHANGED <<cfg, ct_pc, ct_exc, url_parsed, requests, f0, lost_calls,
                   triggers>>

\* connection-loss is triggered on the transport the connector produced:
\* transport.connectionLost() runs whatever the attribute is bound to
TriggerConnectionLost ==
    /\ UNCHANGED runner_vars
    /\ callback_ran
    /\ f0.state = "resolved"
    /\ triggers < MaxTriggers
    /\ triggers' = triggers + 1
    /\ lost_calls' = IF hook[f0.transport] # 0
                       THEN [lost_calls EXCEPT ![hook[f0.transport]] = @ + 1]
                       ELSE lost_calls
    /\ UNCHANGED <<cfg, ct_pc, ct_exc, url_parsed, requests, f0, f1, f1_sets,
                   callback_ran, hook>>

NextConnect ==
    \/ ConnectTo
    \/ ConnectorResolved
    \/ ConnectorFailed
    \/ ConnectorCancelled
    \/ return_proto
    \/ TriggerConnectionLost

(* -------------------------- specifications --------------------------- *)

\* one run of ApplicationRunner.run()
Spec == Init /\ [][Next]_vars

\* one call of connect_to on any transport configuration
SpecConnect == InitConnect /\ [][NextConnect]_vars

\* the loop calls a done-callback once its future is done (call_soon)
SpecConnectFair == SpecConnect /\ WF_vars(return_proto)

(* ------------------------- properties of run() ----------------------- *)

Ended == pc \in {"returned", "raised"}

\* the shutdown decision of lines 232-233 has been taken
PastShutdownDecision ==
    \/ pc \in {"leaving", "closing", "returned"}
    \/ (pc = "raised" /\ exc.kind = "LeaveError")

\* C1: whenever the shutdown phase is reached while the session created by
\* session_factory is present and has a non-null session id, leave() of that
\* session has run to completion before loop.close() is called.
C1_LeaveBeforeClose ==
    (pc \in {"closing", "returned"} /\ session # 0 /\ session_id[session] # 0)
        => session \in left

\* C2: every run() that got past session creation ends with the loop closed,
\* unless the exception it raises comes from leave().
C2_EndsWithLoopClosed ==
    (Ended /\ session # 0 /\ exc.kind # "LeaveError") => loop_state = "closed"

C4_SigTermLikeInterrupt ==
    sigterm =>
        /\ pc \in {"shutdown", "leaving", "closing", "returned", "raised"}
        /\ exc.kind \in {"none", "LeaveError"}
        /\ (pc = "returned" => loop_state = "closed")

\* C5: if at shutdown time the session that the shutdown step examines has no
\* active session id, leave() is never invoked during the run and the loop is
\* closed when run() ends; and leave() is never invoked on a session created
\* by session_factory that has no session id.
C5_NoLeaveWithoutSessionId ==
    PastShutdownDecision =>
        /\ ~(/\ protocol_has_session
             /\ protocol_session # 0
             /\ session_id[protocol_session] # 0)
              => /\ leave_calls = <<>>
                 /\ pc \in {"closing", "returned"}
                 /\ (pc = "returned" => loop_state = "closed")
        /\ session_id[session] = 0
              => \A i \in 1..Len(leave_calls) : leave_calls[i] # session

C5_Witness ==
    /\ pc = "returned"
    /\ protocol_has_session
    /\ protocol_session # 0
    /\ session_id[protocol_session] = 0
    /\ leave_calls = <<>>
    /\ loop_state = "closed"

\* C6: in one run() session_factory is called exactly once, with a
\* ComponentConfig whose realm and extra are the runner's, and the session it
\* returned is the one held by the Connection that is opened.
C6_FactoryOnce ==
    /\ factory_calls <= 1
    /\ (pc \notin {"idle", "loop_configured"} => factory_calls = 1)
    /\ (factory_calls = 1 => factory_arg = [realm |-> realm, extra |-> extra])
    /\ (session # 0 => connection = session)
    /\ (opened # 0 => opened = session /\ session # 0)
    /\ (pc \in {"opening", "shutdown", "leaving", "closing", "returned"}
            => opened # 0)

C6_Witness ==
    pc = "opening" /\ factory_calls = 1 /\ opened = session /\ session # 0

(* ----------------------- properties of connect_to -------------------- *)

\* a configuration of the documented shape for one of the two stream kinds
ValidConfig(c) ==
    /\ c.type = "websocket"
    /\ c.url # "bad"
    /\ \/ c.ep_type = "unix" /\ c.ep_path # 0
       \/ c.ep_type = "tcp" /\ c.ep_version \in {0, 4}

F0Done == ct_pc = "returned" /\ f0.state \in {"resolved", "failed", "cancelled"}

\* C7: for connect_to with a valid configuration of either stream kind,
\* connect_to returns a future; once the connector's future has resolved with
\* a (transport, protocol) pair that future is resolved with that protocol,
\* and once it has failed with e that future is failed with the same e.
C7_ResultRoundTrip ==
    (ValidConfig(cfg) /\ ct_pc \notin {"idle", "start"}) =>
        /\ ct_pc = "returned"
        /\ (callback_ran /\ f0.state = "resolved" /\ f0.is_pair /\ f0.patchable)
              => (f1.state = "resolved" /\ f1.result = f0.protocol)
        /\ (callback_ran /\ f0.state = "failed")
              => (f1.state = "failed" /\ f1.exc = ExcOf("ConnectError", f0.err))

\* C8: the future connect_to returned is completed exactly once: however the
\* connector's future completes (result, error, cancellation, a result that
\* does not unpack, a transport that cannot be patched), the output future
\* becomes resolved(protocol) or failed(error), never both, never left pending.
C8_CompletedExactlyOnce ==
    /\ [](/\ f1_sets <= 1
          /\ (f1.state = "resolved" => f1.exc = NoExc /\ f1.result = f0.protocol)
          /\ (f1.state = "failed" => f1.result = 0 /\ f1.exc # NoExc)
          /\ (callback_ran => f1.state \in {"resolved", "failed"} /\ f1_sets = 1))
    /\ (F0Done ~> (f1.state \in {"resolved", "failed"} /\ f1_sets = 1))

C8_Witness ==
    /\ f0.state = "cancelled"
    /\ f1.state = "failed"
    /\ f1.exc = Exc("CancelledError")
    /\ f1_sets = 1

\* C9: in every state where the future connect_to returned is resolved, the
\* transport's connectionLost is bound to the connection_lost of the protocol
\* the future carries, and every trigger of connection-loss on that transport
\* has called that handler exactly once (and no other protocol's).
C9_ConnectionLostWired ==
    f1.state = "resolved" =>
        /\ f1.result = f0.protocol
        /\ hook[f0.transport] = f1.result
        /\ lost_calls[f1.result] = triggers
        /\ \A p \in Protocols : p # f1.result => lost_calls[p] = 0

C9_Witness ==
    /\ f1.state = "resolved"
    /\ triggers = 1
    /\ lost_calls[f1.result] = 1
    /\ hook[f0.transport] = f0.protocol

UnsupportedTransport ==
    [kind |-> "RuntimeError: No rawsocket/asyncio impl", arg |-> "none"]

\* C10: for every configuration of type rawsocket, whatever its url and
\* endpoint hold, building the protocol factory fails with the
\* unsupported-transport error, and connect_to raises that error before any
\* URL parsing and before any connection attempt.
C10_RawsocketRejected ==
    cfg.type = "rawsocket" =>
        /\ ~_create_wamp_factory(cfg).ok
        /\ _create_wamp_factory(cfg).exc = UnsupportedTransport
        /\ ct_pc \notin {"idle", "start"} =>
              /\ ct_pc = "raised"
              /\ ct_exc = UnsupportedTransport
              /\ url_parsed = 0
              /\ requests = <<>>
              /\ f0.kind = "none"

C10_Witness ==
    /\ cfg.type = "rawsocket"
    /\ cfg.url = "bad"
    /\ cfg.ep_type = "udp"
    /\ ct_pc = "raised"
    /\ ct_exc = UnsupportedTransport

\* a configuration error: rawsocket type, an endpoint type that is neither
\* unix nor tcp, or a tcp endpoint with a version other than 4
ConfigError(c) ==
    \/ c.type = "rawsocket"
    \/ c.ep_type \notin {"unix", "tcp"}
    \/ (c.ep_type = "tcp" /\ c.ep_version \notin {0, 4})

Called == ct_pc \notin {"idle", "start"}

\* C11: for a configuration error of any kind connect_to fails synchronously
\* (it raises, it returns no future) and makes no call of the loop's connect
\* primitives, so that no connection request goes out in that invocation.
C11_ConfigErrorNoIO ==
    (ConfigError(cfg) /\ Called) =>
        /\ ct_pc = "raised"
        /\ f1.state = "none"
        /\ f0.kind = "none"
        /\ f0.req = NoRequest
        /\ requests = <<>>

C11_Witness ==
    /\ cfg.type = "websocket"
    /\ cfg.url = "wss"
    /\ cfg.ep_type = "udp"
    /\ ct_pc = "raised"
    /\ requests = <<>>

UnsupportedAddressFamily ==
    [kind |-> "RuntimeError: FIXME: IPv6 asyncio", arg |-> "none"]

\* the tcp branch of _connect_stream is reached: the factory was built and
\* the URL parsed
TcpReached == cfg.type # "rawsocket" /\ cfg.url # "bad" /\ cfg.ep_type = "tcp"

C14_UnixUsesEndpointPath ==
    (/\ cfg.type # "rawsocket"
     /\ cfg.url # "bad"
     /\ cfg.ep_type = "unix"
     /\ cfg.ep_path # 0
     /\ Called)
        => requests = <<[kind |-> "unix", path |-> cfg.ep_path, host |-> 0,
                         port |-> 0, ssl |-> "none"]>>

\* C15: for every configuration whose endpoint type is neither unix nor tcp,
\* resolution fails with the unknown-transport-type error, and that error
\* carries the offending endpoint type.
C15_UnknownTypeCarriesEndpointType ==
    (/\ cfg.type # "rawsocket"
     /\ cfg.url # "bad"
     /\ cfg.ep_type \notin {"unix", "tcp"}
     /\ Called)
        => /\ ct_pc = "raised"
           /\ ct_exc.kind = "RuntimeError: Unknown type"
           /\ ct_exc.arg = cfg.ep_type

\* C18: one call of connect_to with a valid configuration issues exactly one
\* outbound connection request, and none is added once the connector's
\* future is resolved or failed.
C18_ExactlyOneRequest ==
    (ValidConfig(cfg) /\ Called) => Len(requests) = 1

(* ---------------------- more properties of run() --------------------- *)

\* C16: if the future of Connection.open() fails with an error that is not a
\* user interrupt, run() does not catch it: run() ends by raising that same
\* error object to its caller.
C16_OpenErrorPropagates ==
    open_error # 0 =>
        /\ pc = "raised"
        /\ exc = ExcOf("OpenError", open_error)
        /\ leave_calls = <<>>

C16_Witness ==
    open_error # 0 /\ pc = "raised" /\ exc.kind = "OpenError"

\* position of an event of run() in the order the claim gives
Rank(ev) ==
    CASE ev = "session_factory" -> 1
      [] ev = "open_start" -> 2
      [] ev = "open_end" -> 3
      [] ev = "leave_start" -> 4
      [] ev = "leave_end" -> 5
      [] ev = "loop_close" -> 6

Happened(ev) == \E i \in DOMAIN events : events[i] = ev

\* C17: within one run() the events are totally ordered: the session_factory
\* call comes before open() is started; leave(), if it happens at all, is
\* started only after the wait on open() has ended, at most once, and ends
\* before loop.close().
C17_EventOrder ==
    /\ \A i, j \in DOMAIN events : i < j => Rank(events[i]) < Rank(events[j])
    /\ Happened("open_start") => Happened("session_factory")
    /\ Happened("leave_start") => Happened("open_end")
    /\ (Happened("loop_close") /\ Happened("leave_start")) => Happened("leave_end")
    /\ Len(leave_calls) <= 1
    /\ (Len(leave_calls) = 1 <=> Happened("leave_start"))
    /\ (left # {} <=> Happened("leave_end"))
    /\ (loop_state = "closed" <=> Happened("loop_close"))

C17_Witness ==
    events = <<"session_factory", "open_start", "open_end", "leave_start",
               "leave_end", "loop_close">>

\* C19: if installing the SIGTERM handler is not supported on the platform,
\* run() skips that step and goes on through session creation, open(),
\* shutdown and loop close; the missing handler is never why run() raises.
C19_NoSignalSupportNotFatal ==
    ~signals_supported =>
        /\ sigterm_handler = "none"
        /\ ~sigterm
        /\ exc.kind \in {"none", "FactoryError", "OpenError", "LeaveError"}
        /\ (pc = "raised" => factory_calls = 1)

C19_Witness ==
    /\ ~signals_supported
    /\ sigterm_handler = "none"
    /\ pc = "returned"
    /\ loop_state = "closed"
    /\ exc = NoExc

====
